---- MODULE Spec2Model ----
(***************************************************************************)
(* Verification model of the GlowCheck core services:                      *)
(*   - NetworkService.makeRequest  (retry / backoff / timeout loop)         *)
(*   - AIService                   (analysis calls with mock fallback)      *)
(*   - SubscriptionService         (trial / paid entitlement records)       *)
(* Each service has its own specification (SpecNet, SpecAI, Spec); the     *)
(* variables of the services a specification does not exercise stay at     *)
(* their initial values.                                                    *)
(***************************************************************************)
EXTENDS Integers, Sequences, FiniteSets, TLC

VARIABLES
    \* ---- NetworkService.makeRequest: one logical call
    netPc,        \* "idle" | "attempt" | "inflight" | "delay" | "returned" | "thrown"
    request,      \* the public method called and the headers makeRequest sends
    retries,      \* config.retries of the call
    retryDelay,   \* config.retryDelay of the call
    attempt,      \* the loop variable
    log,          \* outcome of every fetch the call has made, in order
    delays,       \* every backoff delay the call has slept, in order
    lastError,    \* the local lastError
    thrown,       \* the error the call rejected with
    timers,       \* attempts whose setTimeout is armed (not cleared, not fired)
    aborted,      \* attempts whose AbortController has been aborted
    \* ---- AIService: one public call
    aiOp,         \* "none" | "analyzeGlow" | "analyzeOutfit" | "generateCoachingPlan"
    aiPc,         \* position of the call (see the actions)
    aiResult,     \* what the call resolved with
    aiSource,     \* "none" | "comprehensive" | "legacy" | "outfit" | "plan" | "mock"
    aiFail,       \* the failure that sent the call to its fallback, "none" if none
    aiCompletion, \* the completion that was parsed
    aiReports,    \* the reports made to errorHandler during the call, in order
    aiReportRejected, \* whether a report to errorHandler has rejected in the call
    aiFetches,    \* how many fetches of the LLM endpoint the call has made
    \* ---- SubscriptionService, its AsyncStorage records and its callers
    now,          \* the current time, in days since 1 January 2024
    ticks,        \* how many times the clock has been advanced
    subStore,     \* AsyncStorage item 'subscription_status'
    trialStore,   \* AsyncStorage item 'trial_status'
    pc,           \* per caller: position in the method it is running
    call,         \* per caller: the method and the planId it was called with
    readSub,      \* per caller: the local `stored` of getSubscriptionStatus
    pending,      \* per caller: the record the call is about to write
    ret,          \* per caller: what the last call returned
    prev,         \* per caller: what the call before the current one returned
    atCall,       \* per caller: both stored records as they were when the call began
    late,         \* per caller: the call began after a startFreeTrial had returned success
    ioFailed,     \* per caller: an AsyncStorage operation of the call rejected
    trialGranted, \* a startFreeTrial call has returned success
    observed,     \* the callers whose history (prev, atCall, late) is recorded
    \* ---- AuthContext: the state of the hook and the work its effect started
    user,         \* the `user` state
    isLoading,    \* the `isLoading` state
    sessionPc,    \* checkSession: "get_user" | "profile" | "done"
    sessionUser,  \* checkSession: id of the currentUser it is fetching the profile of
    subscribed,   \* the onAuthStateChange listener is subscribed
    authEvents,   \* how many auth events have been delivered to the listener
    inflight,     \* profile fetches started by SIGNED_IN handlers, not yet settled
    signedOut     \* a SIGNED_OUT was handled and no SIGNED_IN has arrived since

netVars == <<netPc, request, retries, retryDelay, attempt, log, delays, lastError, thrown,
             timers, aborted>>

aiVars == <<aiOp, aiPc, aiResult, aiSource, aiFail, aiCompletion, aiReports,
            aiReportRejected, aiFetches>>

subVars == <<now, ticks, subStore, trialStore, pc, call, readSub, pending, ret, prev,
             atCall, late, ioFailed, trialGranted, observed>>

authVars == <<user, isLoading, sessionPc, sessionUser, subscribed, authEvents,
              inflight, signedOut>>

vars == <<netVars, aiVars, subVars, authVars>>

-----------------------------------------------------------------------------
(* Bounds *)
MaxRetries == 2
MaxRetryDelay == 2
\* Largest number of keys of a JSON object the gateway answers with
MaxKeys == 4
\* Math.random() is sampled: of the values Math.floor(Math.random() * n) can
\* take, the multiples of RandStride and the largest one
RandStride == 15
\* How many times the clock is advanced in one behaviour
MaxTicks == 2
\* The same, under SpecConcurrent
MaxConcurrentTicks == 1
\* Auth events delivered to the listener in one run
MaxAuthEvents == 3

-----------------------------------------------------------------------------
(***************************************************************************)
(* NetworkService                                                          *)
(***************************************************************************)

\* Response statuses the server may answer with.
Statuses == {200, 204, 304, 400, 401, 403, 404, 408, 429, 500, 503}

\* What one fetch can end with: a response, a rejection without a response
\* (connection failure), or the rejection caused by controller.abort().
Responses == [kind : {"response"}, status : Statuses]
NetworkFailure == [kind |-> "network", status |-> 0]
Aborted == [kind |-> "abort", status |-> 0]

\* response.ok
ResponseOk(status) == status >= 200 /\ status <= 299

NoError == [status |-> 0, code |-> "none", isRetryable |-> FALSE, httpStatusInMessage |-> 0]

\* isRetryableError(status, code); status 0 stands for undefined (both are falsy)
isRetryableError(status, code) ==
    IF status = 0 THEN TRUE
    ELSE IF status >= 500 THEN TRUE
    ELSE IF status = 408 \/ status = 429 THEN TRUE
    ELSE IF code = "NETWORK_ERROR" \/ code = "TIMEOUT" THEN TRUE
    ELSE FALSE

\* createError(message, status, code); the message is kept only as the HTTP
\* status it quotes (0 when it quotes none)
createError(msgStatus, status, code) ==
    [status |-> status, code |-> code,
     isRetryable |-> isRetryableError(status, code),
     httpStatusInMessage |-> msgStatus]

\* Math.pow(2, n) for the non-negative integers the loop passes
RECURSIVE Pow2(_)
Pow2(n) == IF n = 0 THEN 1 ELSE 2 * Pow2(n - 1)

\* Backoff without the exponential factor
Backoff_Constant(rd, n) == rd

\* retryDelay * Math.pow(2, attempt)
Backoff(rd, n) == rd * Pow2(n)

\* CatchBlock that rethrows whatever it caught
CatchBlock_NoRetry(msgStatus, isAbort) ==
    LET networkError == createError(msgStatus, 0,
                                    IF isAbort THEN "TIMEOUT" ELSE "NETWORK_ERROR")
    IN  /\ netPc' = "thrown"
        /\ thrown' = networkError
        /\ UNCHANGED <<lastError, delays>>

\* The catch block of the loop body, entered with what was thrown inside the
\* try: either the fetch rejection or the error thrown for a non-ok response.
CatchBlock(msgStatus, isAbort) ==
    LET networkError == createError(msgStatus, 0,
                                    IF isAbort THEN "TIMEOUT" ELSE "NETWORK_ERROR")
    IN  IF ~networkError.isRetryable \/ attempt = retries
        THEN /\ netPc' = "thrown"
             /\ thrown' = networkError
             /\ UNCHANGED <<lastError, delays>>
        ELSE /\ lastError' = networkError
             /\ delays' = Append(delays, Backoff(retryDelay, attempt))
             /\ netPc' = "delay"
             /\ UNCHANGED thrown

\* The branch taken for a response that is not ok.
NotOkBranch(status) ==
    LET error == createError(status, status, "none")
    IN  IF ~error.isRetryable \/ attempt = retries
        THEN CatchBlock(status, FALSE)      \* throw error, inside the try
        ELSE /\ lastError' = error
             /\ delays' = Append(delays, Backoff(retryDelay, attempt))
             /\ netPc' = "delay"
             /\ UNCHANGED thrown

\* ---- Headers: an object with string values; Absent marks a key the object
\* does not have
HeaderNames == {"Content-Type", "User-Agent", "Authorization"}

Absent == "absent"

NoHeaders == [h \in HeaderNames |-> Absent]

\* { ...a, ...b }
Spread(a, b) == [h \in HeaderNames |-> IF b[h] # Absent THEN b[h] ELSE a[h]]

\* NetworkService.baseHeaders
baseHeaders ==
    [NoHeaders EXCEPT !["Content-Type"] = "application/json", !["User-Agent"] = "app"]

\* config.headers a caller of the public methods may pass (none, one without
\* a content type, one that names the multipart content type itself)
CallerHeaders ==
    { NoHeaders,
      [NoHeaders EXCEPT !["Authorization"] = "Bearer"],
      [NoHeaders EXCEPT !["Content-Type"] = "multipart/form-data"] }

\* The public methods; post is split by what `data instanceof FormData` is
Variants == {"get", "post_json", "post_form", "put", "delete", "uploadFile"}

\* options.method each public method passes to makeRequest
MethodOf(v) ==
    CASE v = "get" -> "GET"
      [] v = "put" -> "PUT"
      [] v = "delete" -> "DELETE"
      [] OTHER -> "POST"

\* options.body each public method passes to makeRequest
BodyOf(v) ==
    CASE v \in {"get", "delete"} -> "none"
      [] v \in {"post_json", "put"} -> "json"
      [] OTHER -> "formdata"

\* config.headers each public method passes to makeRequest, given the
\* caller's config.headers
ConfigHeadersOf(v, callerHeaders) ==
    CASE v = "post_json" ->
            Spread([NoHeaders EXCEPT !["Content-Type"] = "application/json"], callerHeaders)
      [] v \in {"post_form", "uploadFile"} -> Spread(NoHeaders, callerHeaders)
      [] OTHER -> callerHeaders

\* const requestHeaders = { ...this.baseHeaders, ...headers }
RequestHeaders(headers) == Spread(baseHeaders, headers)

NoRequest ==
    [variant |-> "none", method |-> "none", body |-> "none",
     callerHeaders |-> NoHeaders, requestHeaders |-> NoHeaders]

NetFrame == UNCHANGED <<aiVars, subVars, authVars>>

NetIdle ==
    /\ netPc = "idle"
    /\ request = NoRequest
    /\ retries = 0
    /\ retryDelay = 1
    /\ attempt = 0
    /\ log = <<>>
    /\ delays = <<>>
    /\ lastError = NoError
    /\ thrown = NoError
    /\ timers = {}
    /\ aborted = {}

\* A public method (get, post, put, delete, uploadFile) calls
\* makeRequest(url, options, config): destructure the config, merge the
\* headers, enter the loop
MakeRequest ==
    /\ netPc = "idle"
    /\ \E r \in 0..MaxRetries, d \in 1..MaxRetryDelay :
          /\ retries' = r
          /\ retryDelay' = d
    /\ \E v \in Variants, h \in CallerHeaders :
          request' = [variant |-> v, method |-> MethodOf(v), body |-> BodyOf(v),
                      callerHeaders |-> h,
                      requestHeaders |-> RequestHeaders(ConfigHeadersOf(v, h))]
    /\ attempt' = 0
    /\ netPc' = "attempt"
    /\ UNCHANGED <<log, delays, lastError, thrown, timers, aborted>>
    /\ NetFrame

\* StartAttempt with the loop test off by one (attempt < retries)
StartAttempt_OffByOne ==
    /\ netPc = "attempt"
    /\ IF attempt < retries
       THEN /\ timers' = timers \cup {attempt}
            /\ netPc' = "inflight"
            /\ UNCHANGED thrown
       ELSE /\ netPc' = "thrown"
            /\ thrown' = lastError
            /\ UNCHANGED timers
    /\ UNCHANGED <<request, retries, retryDelay, attempt, log, delays, lastError, aborted>>
    /\ NetFrame

\* Loop head and the start of the try: new AbortController, setTimeout, fetch
\* with headers: requestHeaders
StartAttempt ==
    /\ netPc = "attempt"
    /\ IF attempt <= retries
       THEN /\ timers' = timers \cup {attempt}
            /\ netPc' = "inflight"
            /\ UNCHANGED thrown
       ELSE /\ netPc' = "thrown"             \* throw lastError!
            /\ thrown' = lastError
            /\ UNCHANGED timers
    /\ UNCHANGED <<request, retries, retryDelay, attempt, log, delays, lastError, aborted>>
    /\ NetFrame

\* fetch resolves with a response: clearTimeout, then the ok test
FetchResponds ==
    /\ netPc = "inflight"
    /\ \E o \in Responses :
          /\ log' = Append(log, o)
          /\ timers' = timers \ {attempt}
          /\ IF ResponseOk(o.status)
             THEN /\ netPc' = "returned"
                  /\ UNCHANGED <<lastError, delays, thrown>>
             ELSE NotOkBranch(o.status)
    /\ UNCHANGED <<request, retries, retryDelay, attempt, aborted>>
    /\ NetFrame

\* fetch rejects without a response; the timer of the attempt stays armed
FetchRejects ==
    /\ netPc = "inflight"
    /\ log' = Append(log, NetworkFailure)
    /\ CatchBlock(0, FALSE)
    /\ UNCHANGED <<request, retries, retryDelay, attempt, timers, aborted>>
    /\ NetFrame

\* TimerFires with one controller shared by all attempts: any timer aborts
\* the fetch in flight
TimerFires_SharedController ==
    /\ \E i \in timers :
          /\ timers' = timers \ {i}
          /\ aborted' = aborted \cup {i}
          /\ IF netPc = "inflight"
             THEN /\ log' = Append(log, Aborted)
                  /\ CatchBlock(0, TRUE)
             ELSE UNCHANGED <<netPc, log, delays, lastError, thrown>>
    /\ UNCHANGED <<request, retries, retryDelay, attempt>>
    /\ NetFrame

\* A timer fires: controller.abort() of the attempt that armed it.  Only the
\* fetch that was given this controller's signal is rejected by it.
TimerFires ==
    /\ \E i \in timers :
          /\ timers' = timers \ {i}
          /\ aborted' = aborted \cup {i}
          /\ IF netPc = "inflight" /\ i = attempt
             THEN /\ log' = Append(log, Aborted)
                  /\ CatchBlock(0, TRUE)
             ELSE UNCHANGED <<netPc, log, delays, lastError, thrown>>
    /\ UNCHANGED <<request, retries, retryDelay, attempt>>
    /\ NetFrame

\* The backoff sleep ends: continue / fall out of the loop body, attempt++
DelayEnds ==
    /\ netPc = "delay"
    /\ attempt' = attempt + 1
    /\ netPc' = "attempt"
    /\ UNCHANGED <<request, retries, retryDelay, log, delays, lastError, thrown, timers, aborted>>
    /\ NetFrame


-----------------------------------------------------------------------------
(***************************************************************************)
(* AIService                                                               *)
(***************************************************************************)

\* JSON / JavaScript values, as far as the parsers look at them: the type,
\* and n = the number itself, the length of an array or of a string, 1/0
\* for true/false.
Num(n) == [type |-> "number", n |-> n]
Str(len) == [type |-> "string", n |-> len]
Arr(len) == [type |-> "array", n |-> len]
Bool(b) == [type |-> "boolean", n |-> IF b THEN 1 ELSE 0]
Undefined == [type |-> "undefined", n |-> 0]

\* JavaScript truthiness, the test behind `a || b`
Truthy(v) ==
    CASE v.type = "number" -> v.n # 0
      [] v.type = "string" -> v.n # 0
      [] v.type = "array" -> TRUE
      [] v.type = "boolean" -> v.n = 1
      [] OTHER -> FALSE

\* a || b
OrElse(a, b) == IF Truthy(a) THEN a ELSE b

\* parsed.key of a parsed JSON object
Get(obj, key) == IF key \in DOMAIN obj THEN obj[key] ELSE Undefined

EmptyObject == [k \in {} |-> Undefined]

\* All objects over the keys of kv (key -> the values the gateway may give
\* it) that have at most `budget` keys.
RECURSIVE ObjectsOver(_, _, _)
ObjectsOver(kv, keys, budget) ==
    IF keys = {} \/ budget = 0 THEN {EmptyObject}
    ELSE LET k == CHOOSE x \in keys : TRUE
         IN  ObjectsOver(kv, keys \ {k}, budget)
             \cup { (k :> v) @@ o : v \in kv[k], o \in ObjectsOver(kv, keys \ {k}, budget - 1) }

ScoreValues == {Num(-5), Num(50), Num(150), Str(2)}
MetricValues == {Num(0), Num(150)}
TipValues == {Arr(0), Arr(2), Str(2)}

GlowKeyValues ==
    [overallScore |-> ScoreValues, glowScore |-> ScoreValues,
     skinTone |-> {Str(4), Str(0)}, aiTips |-> TipValues,
     jawlineScore |-> MetricValues, brightness |-> MetricValues,
     hydration |-> MetricValues, symmetryScore |-> MetricValues,
     symmetry |-> MetricValues,
     tips |-> {Arr(1)}, improvements |-> {Arr(2)}, recommendations |-> {Arr(1)}]

OutfitKeyValues ==
    [outfitScore |-> ScoreValues, tips |-> TipValues,
     colorMatchScore |-> MetricValues, styleScore |-> MetricValues,
     compatibleColors |-> {Arr(2)},
     eventAppropriate |-> {Bool(FALSE), Bool(TRUE)}, seasonalMatch |-> {Bool(FALSE)}]

PlanKeyValues ==
    [dailyTasks |-> TipValues, tips |-> {Arr(0), Arr(3), Str(2)},
     duration |-> {Num(0), Num(14)}, expectedResults |-> {Arr(2)}]

\* A completion is text: not JSON at all (this is also what JSON.parse makes
\* of a missing completion), the JSON null, a JSON primitive or array, or a
\* JSON object.
NonObjects ==
    {[kind |-> k, obj |-> EmptyObject] : k \in {"invalid", "null", "primitive"}}

CompletionsOver(kv) ==
    NonObjects \cup {[kind |-> "object", obj |-> o] : o \in ObjectsOver(kv, DOMAIN kv, MaxKeys)}

\* Math.floor(Math.random() * n), sampled
RandomFloor(n) == {k \in 0..(n - 1) : k % RandStride = 0 \/ k = n - 1}

\* getMockGlowAnalysis(): every result it can return
getMockGlowAnalysis ==
    { [overallScore |-> Num(o + 70),
       jawlineScore |-> Num(j + 70),
       skinTone |-> Str(4),
       brightness |-> Num(b + 65),
       hydration |-> Num(h + 55),
       symmetryScore |-> Num(y + 75),
       glowScore |-> Num(o + 70),
       improvements |-> Arr(4),
       recommendations |-> Arr(4),
       tips |-> Arr(3),
       aiTips |-> Arr(5)] :
      o \in RandomFloor(30), j \in RandomFloor(25), b \in RandomFloor(30),
      h \in RandomFloor(40), y \in RandomFloor(20) }

\* GlowSchema with the legacy format tried first
GlowSchema_LegacyFirst(c) ==
    IF c.kind # "object" THEN "none"
    ELSE IF Get(c.obj, "glowScore").type = "number" THEN "legacy"
    ELSE IF /\ Get(c.obj, "overallScore").type = "number"
            /\ Get(c.obj, "skinTone").type = "string"
            /\ Get(c.obj, "aiTips").type = "array"
         THEN "comprehensive"
    ELSE "none"

\* The three shapes a glow completion can have for parseGlowAnalysis
GlowSchema(c) ==
    IF c.kind # "object" THEN "none"
    ELSE IF /\ Get(c.obj, "overallScore").type = "number"
            /\ Get(c.obj, "skinTone").type = "string"
            /\ Get(c.obj, "aiTips").type = "array"
         THEN "comprehensive"
    ELSE IF Get(c.obj, "glowScore").type = "number" THEN "legacy"
    ELSE "none"

\* parseGlowAnalysis without the validation of the required fields: whatever
\* was parsed is mapped as if it were the comprehensive format
parseGlowAnalysis_NoValidation(c) ==
    LET parsed == c.obj
    IN  { [overallScore |-> Get(parsed, "overallScore"),
           jawlineScore |-> OrElse(Get(parsed, "jawlineScore"), Num(75)),
           skinTone |-> Get(parsed, "skinTone"),
           brightness |-> OrElse(Get(parsed, "brightness"), Num(75)),
           hydration |-> OrElse(Get(parsed, "hydration"), Num(70)),
           symmetryScore |-> OrElse(Get(parsed, "symmetryScore"), Num(85)),
           glowScore |-> Get(parsed, "overallScore"),
           improvements |-> OrElse(Get(parsed, "improvements"), Arr(0)),
           recommendations |-> OrElse(Get(parsed, "recommendations"), Arr(0)),
           tips |-> Get(parsed, "aiTips"),
           aiTips |-> Get(parsed, "aiTips")] }

\* parseGlowAnalysis(aiResponse): every result it can return
parseGlowAnalysis(c) ==
    LET parsed == c.obj
    IN  CASE GlowSchema(c) = "comprehensive" ->
               { [overallScore |-> Get(parsed, "overallScore"),
                  jawlineScore |-> OrElse(Get(parsed, "jawlineScore"), Num(75)),
                  skinTone |-> Get(parsed, "skinTone"),
                  brightness |-> OrElse(Get(parsed, "brightness"), Num(75)),
                  hydration |-> OrElse(Get(parsed, "hydration"), Num(70)),
                  symmetryScore |-> OrElse(Get(parsed, "symmetryScore"), Num(85)),
                  glowScore |-> Get(parsed, "overallScore"),
                  improvements |-> OrElse(Get(parsed, "improvements"), Arr(0)),
                  recommendations |-> OrElse(Get(parsed, "recommendations"), Arr(0)),
                  tips |-> Get(parsed, "aiTips"),
                  aiTips |-> Get(parsed, "aiTips")] }
          [] GlowSchema(c) = "legacy" ->
               { [overallScore |-> Get(parsed, "glowScore"),
                  jawlineScore |-> Num(75),
                  skinTone |-> OrElse(Get(parsed, "skinTone"), Str(6)),
                  brightness |-> OrElse(Get(parsed, "brightness"), Num(75)),
                  hydration |-> OrElse(Get(parsed, "hydration"), Num(70)),
                  symmetryScore |-> OrElse(Get(parsed, "symmetry"), Num(85)),
                  glowScore |-> Get(parsed, "glowScore"),
                  improvements |-> OrElse(Get(parsed, "improvements"), Arr(0)),
                  recommendations |-> OrElse(Get(parsed, "recommendations"), Arr(0)),
                  tips |-> OrElse(Get(parsed, "tips"),
                                  OrElse(Get(parsed, "improvements"), Arr(0))),
                  aiTips |-> OrElse(Get(parsed, "tips"),
                                    OrElse(Get(parsed, "improvements"), Arr(0)))] }
          [] OTHER -> getMockGlowAnalysis

\* getMockOutfitAnalysis(): every result it can return
getMockOutfitAnalysis ==
    { [outfitScore |-> Num(o + 70),
       colorMatchScore |-> Num(m + 70),
       styleScore |-> Num(t + 70),
       compatibleColors |-> Arr(5),
       tips |-> Arr(4),
       eventAppropriate |-> Bool(e),
       seasonalMatch |-> Bool(z)] :
      o \in RandomFloor(30), m \in RandomFloor(30), t \in RandomFloor(30),
      e \in BOOLEAN, z \in BOOLEAN }

OutfitSchema(c) ==
    IF c.kind # "object" THEN "none"
    ELSE IF /\ Get(c.obj, "outfitScore").type = "number"
            /\ Get(c.obj, "tips").type = "array"
         THEN "outfit"
    ELSE "none"

\* parseOutfitAnalysis(aiResponse): every result it can return
parseOutfitAnalysis(c) ==
    LET parsed == c.obj
    IN  IF OutfitSchema(c) = "outfit"
        THEN { [outfitScore |-> Get(parsed, "outfitScore"),
                colorMatchScore |-> OrElse(Get(parsed, "colorMatchScore"), Num(75)),
                styleScore |-> OrElse(Get(parsed, "styleScore"), Num(75)),
                compatibleColors |-> OrElse(Get(parsed, "compatibleColors"), Arr(3)),
                tips |-> Get(parsed, "tips"),
                eventAppropriate |-> Bool(Get(parsed, "eventAppropriate") # Bool(FALSE)),
                seasonalMatch |-> Bool(Get(parsed, "seasonalMatch") # Bool(FALSE))] }
        ELSE getMockOutfitAnalysis

\* MockTasksOfDay without the exercise task of every third day
MockTasksOfDay_NoExercise(day) ==
    << [id |-> <<day, 1>>, day |-> day, type |-> "skincare"],
       [id |-> <<day, 2>>, day |-> day, type |-> "hydration"],
       [id |-> <<day, 3>>, day |-> day, type |-> "sleep"] >>

\* The tasks getMockCoachingPlan pushes for one day; ids are <<day, k>> for
\* `task-${day}-${k}`
MockTasksOfDay(day) ==
    LET base == << [id |-> <<day, 1>>, day |-> day, type |-> "skincare"],
                   [id |-> <<day, 2>>, day |-> day, type |-> "hydration"],
                   [id |-> <<day, 3>>, day |-> day, type |-> "sleep"] >>
    IN  IF day % 3 = 0
        THEN Append(base, [id |-> <<day, 4>>, day |-> day, type |-> "exercise"])
        ELSE base

RECURSIVE MockTasksFrom(_)
MockTasksFrom(day) ==
    IF day > 30 THEN <<>> ELSE MockTasksOfDay(day) \o MockTasksFrom(day + 1)

\* getMockCoachingPlan(goal)
getMockCoachingPlan ==
    [duration |-> Num(30), dailyTasks |-> MockTasksFrom(1), parsedTasks |-> Undefined,
     tips |-> Arr(4), expectedResults |-> Arr(4)]

PlanSchema(c) ==
    IF c.kind # "object" THEN "none"
    ELSE IF /\ Get(c.obj, "dailyTasks").type = "array"
            /\ Get(c.obj, "tips").type = "array"
         THEN "plan"
    ELSE "none"

\* parseCoachingPlan(aiResponse, goal); the gateway's task array is kept as
\* the value it is (parsedTasks), generated tasks as dailyTasks
parseCoachingPlan(c) ==
    LET parsed == c.obj
    IN  IF PlanSchema(c) = "plan"
        THEN { [duration |-> OrElse(Get(parsed, "duration"), Num(30)),
                dailyTasks |-> <<>>,
                parsedTasks |-> Get(parsed, "dailyTasks"),
                tips |-> Get(parsed, "tips"),
                expectedResults |-> OrElse(Get(parsed, "expectedResults"), Arr(0))] }
        ELSE {getMockCoachingPlan}

\* What is kept of a parsed completion: all of it when it decodes, its kind
\* alone when it matches no schema
Summary(c, schema) == IF schema = "none" THEN [kind |-> c.kind, obj |-> EmptyObject] ELSE c

GlowInputs == {Summary(c, GlowSchema(c)) : c \in CompletionsOver(GlowKeyValues)}
OutfitInputs == {Summary(c, OutfitSchema(c)) : c \in CompletionsOver(OutfitKeyValues)}
PlanInputs == {Summary(c, PlanSchema(c)) : c \in CompletionsOver(PlanKeyValues)}

AIOps == {"analyzeGlow", "analyzeOutfit", "generateCoachingPlan"}

InputsOf(op) ==
    CASE op = "analyzeGlow" -> GlowInputs
      [] op = "analyzeOutfit" -> OutfitInputs
      [] OTHER -> PlanInputs

SchemaOf(op, c) ==
    CASE op = "analyzeGlow" -> GlowSchema(c)
      [] op = "analyzeOutfit" -> OutfitSchema(c)
      [] OTHER -> PlanSchema(c)

ParseOf(op, c) ==
    CASE op = "analyzeGlow" -> parseGlowAnalysis(c)
      [] op = "analyzeOutfit" -> parseOutfitAnalysis(c)
      [] OTHER -> parseCoachingPlan(c)

MockOf(op) ==
    CASE op = "analyzeGlow" -> getMockGlowAnalysis
      [] op = "analyzeOutfit" -> getMockOutfitAnalysis
      [] OTHER -> {getMockCoachingPlan}

NoResult == [none |-> TRUE]
NoCompletion == [kind |-> "none", obj |-> EmptyObject]

\* errorHandler is a collaborator: an awaited report resolves, rejects or
\* never settles
ReportOutcomes == {"ok", "reject", "hang"}

AIIdle ==
    /\ aiOp = "none"
    /\ aiPc = "idle"
    /\ aiResult = NoResult
    /\ aiSource = "none"
    /\ aiFail = "none"
    /\ aiCompletion = NoCompletion
    /\ aiReports = <<>>
    /\ aiReportRejected = FALSE
    /\ aiFetches = 0

AIFrame == UNCHANGED <<netVars, subVars, authVars>>

\* `return this.getMock...()` of a catch block
ReturnMock ==
    /\ \E r \in MockOf(aiOp) : aiResult' = r
    /\ aiSource' = "mock"
    /\ aiPc' = "resolved"

\* One awaited errorHandler.report...() call of a catch block
Reported(outcome) ==
    /\ aiReports' = Append(aiReports, aiPc)
    /\ aiReportRejected' = (aiReportRejected \/ outcome = "reject")

\* analyzeGlow / analyzeOutfit / generateCoachingPlan is called
AICall ==
    /\ aiPc = "idle"
    /\ \E op \in AIOps :
          /\ aiOp' = op
          /\ aiPc' = IF op = "generateCoachingPlan" THEN "llm_fetch" ELSE "upload"
    /\ UNCHANGED <<aiResult, aiSource, aiFail, aiCompletion, aiReports, aiReportRejected>>
    /\ UNCHANGED aiFetches
    /\ AIFrame

\* uploadImageToS3: returns the uri it was given
UploadImage ==
    /\ aiPc = "upload"
    /\ aiPc' = "vision_encode"
    /\ UNCHANGED <<aiOp, aiResult, aiSource, aiFail, aiCompletion, aiReports, aiReportRejected>>
    /\ UNCHANGED aiFetches
    /\ AIFrame

\* convertImageToBase64, try block: the encoding succeeds or throws
ConvertImage ==
    /\ aiPc \in {"vision_encode", "llm_encode"}
    /\ \E ok \in BOOLEAN :
          IF ok
          THEN /\ aiPc' = IF aiPc = "vision_encode" THEN "vision_call" ELSE "llm_fetch"
               /\ UNCHANGED aiFail
          ELSE /\ aiPc' = IF aiPc = "vision_encode" THEN "report_convert_vision"
                                                    ELSE "report_convert_llm"
               /\ aiFail' = IF aiPc = "llm_encode" THEN "encode" ELSE aiFail
    /\ UNCHANGED <<aiOp, aiResult, aiSource, aiCompletion, aiReports, aiReportRejected>>
    /\ UNCHANGED aiFetches
    /\ AIFrame

\* convertImageToBase64, catch block: report, then throw (the error, or the
\* report's own rejection) to the caller's catch
ConvertCatch ==
    /\ aiPc \in {"report_convert_vision", "report_convert_llm"}
    /\ \E outcome \in ReportOutcomes :
          /\ Reported(outcome)
          /\ aiPc' = IF outcome = "hang" THEN "hung"
                     ELSE IF aiPc = "report_convert_vision" THEN "report_vision"
                     ELSE "report_llm"
    /\ UNCHANGED <<aiOp, aiResult, aiSource, aiFail, aiCompletion>>
    /\ UNCHANGED aiFetches
    /\ AIFrame

\* analyzeImageWithVision after the encoding: mock data by configuration, or
\* the Vision API call, which succeeds or fails
VisionCall ==
    /\ aiPc = "vision_call"
    /\ \E o \in {"mock", "ok", "fail"} :
          aiPc' = IF o = "fail" THEN "report_vision" ELSE "llm_encode"
    /\ UNCHANGED <<aiOp, aiResult, aiSource, aiFail, aiCompletion, aiReports, aiReportRejected>>
    /\ UNCHANGED aiFetches
    /\ AIFrame

\* analyzeImageWithVision, catch block: report, then return mock vision data
VisionCatch ==
    /\ aiPc = "report_vision"
    /\ \E outcome \in ReportOutcomes :
          /\ Reported(outcome)
          /\ aiPc' = CASE outcome = "hang" -> "hung"
                       [] outcome = "reject" -> "report_outer"
                       [] OTHER -> "llm_encode"
          /\ aiFail' = IF outcome = "reject" THEN "report" ELSE aiFail
    /\ UNCHANGED <<aiOp, aiResult, aiSource, aiCompletion>>
    /\ UNCHANGED aiFetches
    /\ AIFrame

\* The LLM request: a bare fetch with an AbortController timer
LlmFetch ==
    /\ aiPc = "llm_fetch"
    /\ \E o \in {"ok", "network", "abort", "notok"} :
          IF o = "ok"
          THEN aiPc' = "llm_json" /\ UNCHANGED aiFail
          ELSE aiPc' = "report_llm" /\ aiFail' = o
    /\ UNCHANGED <<aiOp, aiResult, aiSource, aiCompletion, aiReports, aiReportRejected>>
    /\ aiFetches' = aiFetches + 1
    /\ AIFrame

\* response.json() rejects
LlmJsonRejects ==
    /\ aiPc = "llm_json"
    /\ aiPc' = "report_llm"
    /\ aiFail' = "json"
    /\ UNCHANGED <<aiOp, aiResult, aiSource, aiCompletion, aiReports, aiReportRejected>>
    /\ UNCHANGED aiFetches
    /\ AIFrame

\* response.json() resolves; parse...(result.completion) decides the result
LlmCompletion ==
    /\ aiPc = "llm_json"
    /\ \E c \in InputsOf(aiOp) :
          /\ aiCompletion' = c
          /\ \E r \in ParseOf(aiOp, c) : aiResult' = r
          /\ aiSource' = IF SchemaOf(aiOp, c) = "none" THEN "mock" ELSE SchemaOf(aiOp, c)
          /\ aiFail' = IF SchemaOf(aiOp, c) = "none" THEN "parse" ELSE aiFail
    /\ aiPc' = "resolved"
    /\ UNCHANGED <<aiOp, aiReports, aiReportRejected>>
    /\ UNCHANGED aiFetches
    /\ AIFrame

\* LlmCatch that rethrows after reporting (as generateImage's catch does)
LlmCatch_Rethrow ==
    /\ aiPc = "report_llm"
    /\ \E outcome \in ReportOutcomes :
          /\ Reported(outcome)
          /\ CASE outcome = "hang" ->
                    aiPc' = "hung" /\ UNCHANGED <<aiResult, aiSource, aiFail>>
               [] OTHER ->
                    /\ aiPc' = IF aiOp = "generateCoachingPlan" THEN "rejected"
                               ELSE "report_outer"
                    /\ UNCHANGED <<aiResult, aiSource, aiFail>>
    /\ UNCHANGED <<aiOp, aiCompletion>>
    /\ UNCHANGED aiFetches
    /\ AIFrame

\* getAIGlowAnalysis / getAIOutfitAnalysis / generateCoachingPlan, catch
\* block: report, then return mock data
LlmCatch ==
    /\ aiPc = "report_llm"
    /\ \E outcome \in ReportOutcomes :
          /\ Reported(outcome)
          /\ CASE outcome = "hang" ->
                    aiPc' = "hung" /\ UNCHANGED <<aiResult, aiSource, aiFail>>
               [] outcome = "reject" ->
                    /\ aiPc' = IF aiOp = "generateCoachingPlan" THEN "rejected"
                               ELSE "report_outer"
                    /\ aiFail' = "report"
                    /\ UNCHANGED <<aiResult, aiSource>>
               [] OTHER -> ReturnMock /\ UNCHANGED aiFail
    /\ UNCHANGED <<aiOp, aiCompletion>>
    /\ UNCHANGED aiFetches
    /\ AIFrame

\* analyzeGlow / analyzeOutfit, catch block: report, then return mock data
OuterCatch ==
    /\ aiPc = "report_outer"
    /\ \E outcome \in ReportOutcomes :
          /\ Reported(outcome)
          /\ CASE outcome = "hang" ->
                    aiPc' = "hung" /\ UNCHANGED <<aiResult, aiSource>>
               [] outcome = "reject" ->
                    aiPc' = "rejected" /\ UNCHANGED <<aiResult, aiSource>>
               [] OTHER -> ReturnMock
    /\ UNCHANGED <<aiOp, aiFail, aiCompletion>>
    /\ UNCHANGED aiFetches
    /\ AIFrame


-----------------------------------------------------------------------------
(***************************************************************************)
(* SubscriptionService                                                     *)
(***************************************************************************)

\* ---- Date: time is counted in whole days; day 0 is 1 January 2024.
\* Months are numbered 0..11 as Date does.

IsLeap(y) == (y % 4 = 0 /\ y % 100 # 0) \/ y % 400 = 0

DaysInYear(y) == IF IsLeap(y) THEN 366 ELSE 365

DaysInMonth(y, m) ==
    IF m = 1 THEN (IF IsLeap(y) THEN 29 ELSE 28)
    ELSE IF m \in {3, 5, 8, 10} THEN 30
    ELSE 31

\* Days from 1 January 2024 to 1 January of year y (y >= 2024)
RECURSIVE DaysBeforeYear(_)
DaysBeforeYear(y) == IF y <= 2024 THEN 0 ELSE DaysBeforeYear(y - 1) + DaysInYear(y - 1)

\* Days from 1 January of year y to the first of month m (0..11)
RECURSIVE DaysBeforeMonth(_, _)
DaysBeforeMonth(y, m) == IF m = 0 THEN 0 ELSE DaysBeforeMonth(y, m - 1) + DaysInMonth(y, m - 1)

\* new Date(y, m, d): month and day overflow roll over into the next year /
\* the following months, as Date normalises them
FromDate(y, m, d) == DaysBeforeYear(y + (m \div 12)) + DaysBeforeMonth(y + (m \div 12), m % 12) + (d - 1)

RECURSIVE YearOf(_, _)
YearOf(t, y) == IF t < DaysInYear(y) THEN [y |-> y, rest |-> t] ELSE YearOf(t - DaysInYear(y), y + 1)

RECURSIVE MonthOf(_, _, _)
MonthOf(t, y, m) ==
    IF t < DaysInMonth(y, m) THEN [m |-> m, rest |-> t] ELSE MonthOf(t - DaysInMonth(y, m), y, m + 1)

\* getFullYear / getMonth / getDate of the time t
ToDate(t) ==
    LET yr == YearOf(t, 2024)
        mo == MonthOf(yr.rest, yr.y, 0)
    IN  [y |-> yr.y, m |-> mo.m, d |-> mo.rest + 1]

\* date.toISOString(): the time written as calendar fields
ToISOString(t) == ToDate(t)

\* new Date(isoString)
ParseISO(iso) == FromDate(iso.y, iso.m, iso.d)

\* d.setDate(d.getDate() + n)
AddDays(t, n) == LET dt == ToDate(t) IN FromDate(dt.y, dt.m, dt.d + n)

\* d.setMonth(d.getMonth() + 1)
AddMonth(t) == LET dt == ToDate(t) IN FromDate(dt.y, dt.m + 1, dt.d)

\* d.setFullYear(d.getFullYear() + 1)
AddYear(t) == LET dt == ToDate(t) IN FromDate(dt.y + 1, dt.m, dt.d)

\* ---- The plan catalog
Plans ==
    { [id |-> "premium_monthly", duration |-> "monthly", trialDays |-> 7],
      [id |-> "premium_yearly", duration |-> "yearly", trialDays |-> 7] }

\* Plan ids a caller may pass
PlanIds == {"premium_monthly", "premium_yearly", "premium_lifetime"}

NoPlan == [id |-> "none", duration |-> "none", trialDays |-> 0]

\* FindPlan that answers with the monthly plan for an id it does not know
FindPlan_MonthlyAsDefault(planId) ==
    IF \E p \in Plans : p.id = planId THEN CHOOSE p \in Plans : p.id = planId
    ELSE CHOOSE p \in Plans : p.id = "premium_monthly"

\* this.plans.find(p => p.id === planId); NoPlan stands for undefined
FindPlan(planId) ==
    IF \E p \in Plans : p.id = planId THEN CHOOSE p \in Plans : p.id = planId ELSE NoPlan

NoDate == [y |-> 0, m |-> 0, d |-> 0]

\* AsyncStorage.getItem returned null
NoSub == [present |-> FALSE, isActive |-> FALSE, plan |-> "none", expiresAt |-> NoDate]
NoTrial == [present |-> FALSE, planId |-> "none", startedAt |-> NoDate,
            expiresAt |-> NoDate, used |-> FALSE]

Callers == {1, 2}

Methods == {"getSubscriptionStatus", "startFreeTrial", "subscribeToPlan", "cancelSubscription"}

NoCall == [method |-> "none", planId |-> "none"]
NoRet == [method |-> "none"]

\* { isActive: false }
Inactive ==
    [method |-> "getSubscriptionStatus", isActive |-> FALSE, plan |-> "none",
     hasExpiresAt |-> FALSE, expiresAt |-> 0,
     hasTrial |-> FALSE, isTrialActive |-> FALSE, trialExpiresAt |-> 0, at |-> 0]

\* ComputeStatus with the expiry test strict (expiresAt < now)
ComputeStatus_StrictExpiry(stored, trialStored, n) ==
    LET s0 == IF stored.present
              THEN [Inactive EXCEPT !.isActive = stored.isActive,
                                    !.plan = stored.plan,
                                    !.hasExpiresAt = TRUE,
                                    !.expiresAt = ParseISO(stored.expiresAt)]
              ELSE Inactive
        trialExpiresAt == ParseISO(trialStored.expiresAt)
        isTrialActive == trialExpiresAt > n
        s1 == IF trialStored.present
              THEN [s0 EXCEPT !.hasTrial = TRUE,
                              !.isTrialActive = isTrialActive,
                              !.trialExpiresAt = trialExpiresAt,
                              !.isActive = IF isTrialActive /\ ~s0.isActive THEN TRUE
                                           ELSE s0.isActive]
              ELSE s0
        s2 == IF s1.hasExpiresAt /\ s1.expiresAt < n
              THEN [s1 EXCEPT !.isActive = FALSE]
              ELSE s1
    IN  [s2 EXCEPT !.at = n]

\* getSubscriptionStatus, from the two items read to the returned status,
\* evaluated at time n
ComputeStatus(stored, trialStored, n) ==
    LET s0 == IF stored.present
              THEN [Inactive EXCEPT !.isActive = stored.isActive,
                                    !.plan = stored.plan,
                                    !.hasExpiresAt = TRUE,
                                    !.expiresAt = ParseISO(stored.expiresAt)]
              ELSE Inactive
        trialExpiresAt == ParseISO(trialStored.expiresAt)
        isTrialActive == trialExpiresAt > n
        s1 == IF trialStored.present
              THEN [s0 EXCEPT !.hasTrial = TRUE,
                              !.isTrialActive = isTrialActive,
                              !.trialExpiresAt = trialExpiresAt,
                              !.isActive = IF isTrialActive /\ ~s0.isActive THEN TRUE
                                           ELSE s0.isActive]
              ELSE s0
        s2 == IF s1.hasExpiresAt /\ s1.expiresAt <= n
              THEN [s1 EXCEPT !.isActive = FALSE]
              ELSE s1
    IN  [s2 EXCEPT !.at = n]

AlreadyUsedError ==
    "Free trial has already been used. Please subscribe to continue using premium features."

Result(method, planId, success, error, at) ==
    [method |-> method, planId |-> planId, success |-> success, error |-> error, at |-> at]

\* Dates at which a behaviour may start
StartDays == {FromDate(2024, 0, 31), FromDate(2024, 1, 29), FromDate(2025, 11, 15)}

SubIdle ==
    /\ now \in StartDays
    /\ ticks = 0
    /\ subStore = NoSub
    /\ trialStore = NoTrial
    /\ pc = [p \in Callers |-> "idle"]
    /\ call = [p \in Callers |-> NoCall]
    /\ readSub = [p \in Callers |-> NoSub]
    /\ pending = [p \in Callers |-> NoDate]
    /\ ret = [p \in Callers |-> NoRet]
    /\ prev = [p \in Callers |-> NoRet]
    /\ atCall = [p \in Callers |-> <<NoSub, NoTrial>>]
    /\ late = [p \in Callers |-> FALSE]
    /\ ioFailed = [p \in Callers |-> FALSE]
    /\ trialGranted = FALSE

\* The variables of the other services at rest, for a specification that
\* does not exercise SubscriptionService
SubAtRest ==
    /\ now = 0
    /\ ticks = 0
    /\ subStore = NoSub
    /\ trialStore = NoTrial
    /\ pc = [p \in Callers |-> "idle"]
    /\ call = [p \in Callers |-> NoCall]
    /\ readSub = [p \in Callers |-> NoSub]
    /\ pending = [p \in Callers |-> NoDate]
    /\ ret = [p \in Callers |-> NoRet]
    /\ prev = [p \in Callers |-> NoRet]
    /\ atCall = [p \in Callers |-> <<NoSub, NoTrial>>]
    /\ late = [p \in Callers |-> FALSE]
    /\ ioFailed = [p \in Callers |-> FALSE]
    /\ trialGranted = FALSE
    /\ observed = {}

SubFrame == UNCHANGED <<netVars, aiVars, authVars>>

\* The instants the clock is advanced to: the next day, and the expiry of
\* either stored record
TickTargets ==
    LET marks == {now + 1}
                 \cup (IF subStore.present THEN {ParseISO(subStore.expiresAt)} ELSE {})
                 \cup (IF trialStore.present THEN {ParseISO(trialStore.expiresAt)} ELSE {})
    IN  {t \in marks : t > now}

\* Time passes (a returned value is looked at the moment it is returned;
\* what the call before returned is remembered only while no time passes)
Tick ==
    /\ ticks < MaxTicks
    /\ \A p \in Callers : pc[p] # "done"
    /\ \E t \in TickTargets : now' = t
    /\ ticks' = ticks + 1
    /\ prev' = [p \in Callers |-> NoRet]
    /\ UNCHANGED <<subStore, trialStore, pc, call, readSub, pending, ret,
                   atCall, late, ioFailed, trialGranted, observed>>
    /\ SubFrame

\* What is remembered of a returned value when the next call begins: a
\* successful subscribeToPlan or cancelSubscription
Remembered(r) ==
    IF r.method \in {"subscribeToPlan", "cancelSubscription"}
    THEN (IF r.success THEN r ELSE NoRet)
    ELSE NoRet

\* Caller p is done with what its call returned and makes no call for now
Leave(p) ==
    /\ pc[p] = "done"
    /\ pc' = [pc EXCEPT ![p] = "idle"]
    /\ call' = [call EXCEPT ![p] = NoCall]
    /\ ret' = [ret EXCEPT ![p] = NoRet]
    /\ prev' = [prev EXCEPT ![p] = NoRet]
    /\ atCall' = [atCall EXCEPT ![p] = <<NoSub, NoTrial>>]
    /\ late' = [late EXCEPT ![p] = FALSE]
    /\ ioFailed' = [ioFailed EXCEPT ![p] = FALSE]
    /\ readSub' = [readSub EXCEPT ![p] = NoSub]
    /\ pending' = [pending EXCEPT ![p] = NoDate]
    /\ UNCHANGED <<now, ticks, subStore, trialStore, trialGranted, observed>>
    /\ SubFrame

\* The call of caller p returns r
Return(p, r) ==
    /\ pc' = [pc EXCEPT ![p] = "done"]
    /\ ret' = [ret EXCEPT ![p] = r]

\* Caller p calls a method; what runs before the first await runs here
Call(p) ==
    /\ pc[p] \in {"idle", "done"}
    /\ \E m \in Methods, id \in PlanIds :
          /\ (m \in {"getSubscriptionStatus", "cancelSubscription"} => id = "premium_monthly")
          /\ call' = [call EXCEPT ![p] = [method |-> m, planId |-> id]]
          /\ IF m = "subscribeToPlan" /\ FindPlan(id) = NoPlan
             THEN Return(p, Result(m, id, FALSE, "Plan not found.", 0))
             ELSE /\ pc' = [pc EXCEPT ![p] =
                       CASE m = "getSubscriptionStatus" -> "get_stored"
                         [] m = "startFreeTrial" -> "trial_existing"
                         [] m = "subscribeToPlan" -> "subscribe_api"
                         [] OTHER -> "cancel_api"]
                  /\ ret' = [ret EXCEPT ![p] = NoRet]
    /\ prev' = [prev EXCEPT ![p] = IF p \in observed THEN Remembered(ret[p]) ELSE NoRet]
    /\ atCall' = [atCall EXCEPT ![p] = IF p \in observed THEN <<subStore, trialStore>>
                                                         ELSE <<NoSub, NoTrial>>]
    /\ late' = [late EXCEPT ![p] = p \in observed /\ trialGranted]
    /\ ioFailed' = [ioFailed EXCEPT ![p] = FALSE]
    /\ readSub' = [readSub EXCEPT ![p] = NoSub]
    /\ pending' = [pending EXCEPT ![p] = NoDate]
    /\ UNCHANGED <<now, ticks, subStore, trialStore, trialGranted, observed>>
    /\ SubFrame

\* An awaited AsyncStorage operation of caller p rejects: every method
\* catches it and returns its failure value
StorageRejects(p) ==
    /\ pc[p] \in {"get_stored", "get_trial", "trial_existing", "trial_set",
                  "subscribe_set", "cancel_remove"}
    /\ ioFailed' = [ioFailed EXCEPT ![p] = TRUE]
    /\ Return(p, CASE call[p].method = "getSubscriptionStatus" -> [Inactive EXCEPT !.at = now]
                   [] call[p].method = "startFreeTrial" ->
                        Result("startFreeTrial", call[p].planId, FALSE,
                               "Failed to start free trial. Please try again.", 0)
                   [] call[p].method = "subscribeToPlan" ->
                        Result("subscribeToPlan", call[p].planId, FALSE,
                               "Subscription failed. Please try again.", 0)
                   [] OTHER ->
                        Result("cancelSubscription", call[p].planId, FALSE,
                               "Failed to cancel subscription. Please try again.", 0))
    /\ UNCHANGED <<now, ticks, subStore, trialStore, call, readSub, pending, prev,
                   atCall, late, trialGranted, observed>>
    /\ SubFrame

\* ParseThrows with no catch around JSON.parse: the method rejects
ParseThrows_Propagates(p) ==
    /\ \/ pc[p] = "get_trial" /\ (readSub[p].present \/ trialStore.present)
       \/ pc[p] = "trial_existing" /\ trialStore.present
    /\ pc' = [pc EXCEPT ![p] = "rejected"]
    /\ UNCHANGED <<now, ticks, subStore, trialStore, call, readSub, pending, ret, prev,
                   atCall, late, ioFailed, trialGranted, observed>>
    /\ SubFrame

\* The text read for a stored item is not valid JSON (or parses to a value
\* without the fields read from it): JSON.parse, run once the reads of the
\* method have resolved, throws, and the method's catch returns its failure
\* value.  Only an item that is present is parsed.
ParseThrows(p) ==
    /\ \/ pc[p] = "get_trial" /\ (readSub[p].present \/ trialStore.present)
       \/ pc[p] = "trial_existing" /\ trialStore.present
    /\ ioFailed' = [ioFailed EXCEPT ![p] = TRUE]
    /\ Return(p, IF call[p].method = "getSubscriptionStatus"
                 THEN [Inactive EXCEPT !.at = now]
                 ELSE Result("startFreeTrial", call[p].planId, FALSE,
                             "Failed to start free trial. Please try again.", 0))
    /\ UNCHANGED <<now, ticks, subStore, trialStore, call, readSub, pending, prev,
                   atCall, late, trialGranted, observed>>
    /\ SubFrame

\* ApiFails with no catch around the billing call: the method rejects
ApiFails_Propagates(p) ==
    /\ pc[p] \in {"trial_api", "subscribe_api", "cancel_api"}
    /\ pc' = [pc EXCEPT ![p] = "rejected"]
    /\ UNCHANGED <<now, ticks, subStore, trialStore, call, readSub, pending, ret, prev,
                   atCall, late, ioFailed, trialGranted, observed>>
    /\ SubFrame

\* simulateSubscriptionAPI throws: the method's catch returns its failure
\* value.  logger.error and errorHandler.handleError, called in the catch and
\* not awaited, return normally.
ApiFails(p) ==
    /\ pc[p] \in {"trial_api", "subscribe_api", "cancel_api"}
    /\ Return(p, CASE call[p].method = "startFreeTrial" ->
                        Result("startFreeTrial", call[p].planId, FALSE,
                               "Failed to start free trial. Please try again.", 0)
                   [] call[p].method = "subscribeToPlan" ->
                        Result("subscribeToPlan", call[p].planId, FALSE,
                               "Subscription failed. Please try again.", 0)
                   [] OTHER ->
                        Result("cancelSubscription", call[p].planId, FALSE,
                               "Failed to cancel subscription. Please try again.", 0))
    /\ UNCHANGED <<now, ticks, subStore, trialStore, call, readSub, pending, prev,
                   atCall, late, ioFailed, trialGranted, observed>>
    /\ SubFrame

\* getSubscriptionStatus: getItem(STORAGE_KEY) resolves
GetStored(p) ==
    /\ pc[p] = "get_stored"
    /\ readSub' = [readSub EXCEPT ![p] = subStore]
    /\ pc' = [pc EXCEPT ![p] = "get_trial"]
    /\ UNCHANGED <<now, ticks, subStore, trialStore, call, pending, ret, prev,
                   atCall, late, ioFailed, trialGranted, observed>>
    /\ SubFrame

\* getSubscriptionStatus: getItem(TRIAL_STORAGE_KEY) resolves; the status is
\* computed and returned
GetTrial(p) ==
    /\ pc[p] = "get_trial"
    /\ Return(p, ComputeStatus(readSub[p], trialStore, now))
    /\ UNCHANGED <<now, ticks, subStore, trialStore, call, readSub, pending, prev,
                   atCall, late, ioFailed, trialGranted, observed>>
    /\ SubFrame

\* TrialExisting with the plan check made before the used check
TrialExisting_PlanCheckFirst(p) ==
    /\ pc[p] = "trial_existing"
    /\ LET plan == FindPlan(call[p].planId)
       IN  IF plan = NoPlan \/ plan.trialDays = 0
           THEN Return(p, Result("startFreeTrial", call[p].planId, FALSE,
                                 "Trial not available for this plan.", 0))
           ELSE IF trialStore.present /\ trialStore.used
           THEN Return(p, Result("startFreeTrial", call[p].planId, FALSE, AlreadyUsedError, 0))
           ELSE /\ pc' = [pc EXCEPT ![p] = "trial_api"]
                /\ UNCHANGED ret
    /\ UNCHANGED <<now, ticks, subStore, trialStore, call, readSub, pending, prev,
                   atCall, late, ioFailed, trialGranted, observed>>
    /\ SubFrame

\* TrialExisting without the used check
TrialExisting_NoUsedCheck(p) ==
    /\ pc[p] = "trial_existing"
    /\ LET plan == FindPlan(call[p].planId)
       IN  IF plan = NoPlan \/ plan.trialDays = 0
           THEN Return(p, Result("startFreeTrial", call[p].planId, FALSE,
                                 "Trial not available for this plan.", 0))
           ELSE /\ pc' = [pc EXCEPT ![p] = "trial_api"]
                /\ UNCHANGED ret
    /\ UNCHANGED <<now, ticks, subStore, trialStore, call, readSub, pending, prev,
                   atCall, late, ioFailed, trialGranted, observed>>
    /\ SubFrame

\* startFreeTrial: getItem(TRIAL_STORAGE_KEY) resolves; the used check, then
\* the plan check
TrialExisting(p) ==
    /\ pc[p] = "trial_existing"
    /\ LET plan == FindPlan(call[p].planId)
       IN  IF trialStore.present /\ trialStore.used
           THEN Return(p, Result("startFreeTrial", call[p].planId, FALSE, AlreadyUsedError, 0))
           ELSE IF plan = NoPlan \/ plan.trialDays = 0
           THEN Return(p, Result("startFreeTrial", call[p].planId, FALSE,
                                 "Trial not available for this plan.", 0))
           ELSE /\ pc' = [pc EXCEPT ![p] = "trial_api"]
                /\ UNCHANGED ret
    /\ UNCHANGED <<now, ticks, subStore, trialStore, call, readSub, pending, prev,
                   atCall, late, ioFailed, trialGranted, observed>>
    /\ SubFrame

\* startFreeTrial: simulateSubscriptionAPI resolves; the trial record is
\* built from the current time and setItem is issued
TrialApi(p) ==
    /\ pc[p] = "trial_api"
    /\ pending' = [pending EXCEPT ![p] =
            [present |-> TRUE, planId |-> call[p].planId,
             startedAt |-> ToISOString(now),
             expiresAt |-> ToISOString(AddDays(now, FindPlan(call[p].planId).trialDays)),
             used |-> TRUE]]
    /\ pc' = [pc EXCEPT ![p] = "trial_set"]
    /\ UNCHANGED <<now, ticks, subStore, trialStore, call, readSub, ret, prev,
                   atCall, late, ioFailed, trialGranted, observed>>
    /\ SubFrame

\* TrialSet that keeps a used trial record it finds stored
TrialSet_KeepsExisting(p) ==
    /\ pc[p] = "trial_set"
    /\ trialStore' = IF trialStore.present /\ trialStore.used THEN trialStore ELSE pending[p]
    /\ trialGranted' = TRUE
    /\ Return(p, Result("startFreeTrial", call[p].planId, TRUE, "none", 0))
    /\ UNCHANGED <<now, ticks, subStore, call, readSub, pending, prev,
                   atCall, late, ioFailed, observed>>
    /\ SubFrame

\* startFreeTrial: setItem(TRIAL_STORAGE_KEY) resolves
TrialSet(p) ==
    /\ pc[p] = "trial_set"
    /\ trialStore' = pending[p]
    /\ trialGranted' = TRUE
    /\ Return(p, Result("startFreeTrial", call[p].planId, TRUE, "none", 0))
    /\ UNCHANGED <<now, ticks, subStore, call, readSub, pending, prev,
                   atCall, late, ioFailed, observed>>
    /\ SubFrame

\* SubscriptionExpiry that ignores the plan's duration
SubscriptionExpiry_AlwaysMonthly(plan, t) == AddMonth(t)

\* The expiresAt subscribeToPlan computes at time t for a plan
SubscriptionExpiry(plan, t) ==
    IF plan.duration = "monthly" THEN AddMonth(t) ELSE AddYear(t)

\* SubscribeApi that extends a stored subscription that is still running
SubscribeApi_ExtendsRunning(p) ==
    /\ pc[p] = "subscribe_api"
    /\ LET from == IF subStore.present /\ ParseISO(subStore.expiresAt) > now
                   THEN ParseISO(subStore.expiresAt) ELSE now
       IN  pending' = [pending EXCEPT ![p] =
            [present |-> TRUE, isActive |-> TRUE, plan |-> call[p].planId,
             expiresAt |-> ToISOString(SubscriptionExpiry(FindPlan(call[p].planId), from)),
             at |-> now]]
    /\ pc' = [pc EXCEPT ![p] = "subscribe_set"]
    /\ UNCHANGED <<now, ticks, subStore, trialStore, call, readSub, ret, prev,
                   atCall, late, ioFailed, trialGranted, observed>>
    /\ SubFrame

\* subscribeToPlan: simulateSubscriptionAPI resolves; the record is built
\* from the current time and setItem is issued
SubscribeApi(p) ==
    /\ pc[p] = "subscribe_api"
    /\ pending' = [pending EXCEPT ![p] =
            [present |-> TRUE, isActive |-> TRUE, plan |-> call[p].planId,
             expiresAt |-> ToISOString(SubscriptionExpiry(FindPlan(call[p].planId), now)),
             at |-> now]]
    /\ pc' = [pc EXCEPT ![p] = "subscribe_set"]
    /\ UNCHANGED <<now, ticks, subStore, trialStore, call, readSub, ret, prev,
                   atCall, late, ioFailed, trialGranted, observed>>
    /\ SubFrame

\* SubscribeSet that ends the trial by removing its record
SubscribeSet_ClearsTrial(p) ==
    /\ pc[p] = "subscribe_set"
    /\ subStore' = [present |-> TRUE, isActive |-> pending[p].isActive,
                    plan |-> pending[p].plan, expiresAt |-> pending[p].expiresAt]
    /\ trialStore' = NoTrial
    /\ Return(p, Result("subscribeToPlan", call[p].planId, TRUE, "none", pending[p].at))
    /\ UNCHANGED <<now, ticks, call, readSub, pending, prev,
                   atCall, late, ioFailed, trialGranted, observed>>
    /\ SubFrame

\* subscribeToPlan: setItem(STORAGE_KEY) resolves
SubscribeSet(p) ==
    /\ pc[p] = "subscribe_set"
    /\ subStore' = [present |-> TRUE, isActive |-> pending[p].isActive,
                    plan |-> pending[p].plan, expiresAt |-> pending[p].expiresAt]
    /\ Return(p, Result("subscribeToPlan", call[p].planId, TRUE, "none", pending[p].at))
    /\ UNCHANGED <<now, ticks, trialStore, call, readSub, pending, prev,
                   atCall, late, ioFailed, trialGranted, observed>>
    /\ SubFrame

\* CancelApi that drops the paid record without waiting for removeItem
CancelApi_RemovesEarly(p) ==
    /\ pc[p] = "cancel_api"
    /\ subStore' = NoSub
    /\ pc' = [pc EXCEPT ![p] = "cancel_remove"]
    /\ UNCHANGED <<now, ticks, trialStore, call, readSub, pending, ret, prev,
                   atCall, late, ioFailed, trialGranted, observed>>
    /\ SubFrame

\* cancelSubscription: simulateSubscriptionAPI resolves; removeItem is issued
CancelApi(p) ==
    /\ pc[p] = "cancel_api"
    /\ pc' = [pc EXCEPT ![p] = "cancel_remove"]
    /\ UNCHANGED <<now, ticks, subStore, trialStore, call, readSub, pending, ret, prev,
                   atCall, late, ioFailed, trialGranted, observed>>
    /\ SubFrame

\* CancelRemove that clears the trial item as well
CancelRemove_ClearsAll(p) ==
    /\ pc[p] = "cancel_remove"
    /\ subStore' = NoSub
    /\ trialStore' = NoTrial
    /\ Return(p, Result("cancelSubscription", call[p].planId, TRUE, "none", 0))
    /\ UNCHANGED <<now, ticks, call, readSub, pending, prev,
                   atCall, late, ioFailed, trialGranted, observed>>
    /\ SubFrame

\* cancelSubscription: removeItem(STORAGE_KEY) resolves
CancelRemove(p) ==
    /\ pc[p] = "cancel_remove"
    /\ subStore' = NoSub
    /\ Return(p, Result("cancelSubscription", call[p].planId, TRUE, "none", 0))
    /\ UNCHANGED <<now, ticks, trialStore, call, readSub, pending, prev,
                   atCall, late, ioFailed, trialGranted, observed>>
    /\ SubFrame

-----------------------------------------------------------------------------
(***************************************************************************)
(* AuthContext: the effect run on mount (checkSession and the              *)
(* onAuthStateChange listener)                                             *)
(***************************************************************************)

\* Ids of the accounts that sign in
UserIds == {"u1", "u2"}

\* subscription_tier of the profile row; "free" also stands for a missing
\* row (data?.subscription_tier || 'free')
Tiers == {"free", "premium"}

\* `null` of useState<User | null>
NoUser == [id |-> "none", subscription_tier |-> "none"]

\* The events the listener is called with
AuthEventNames == {"SIGNED_IN", "SIGNED_OUT", "TOKEN_REFRESHED"}

\* The state right after mount: useState initial values, checkSession()
\* called and waiting for getCurrentUser, the listener subscribed
AuthMounted ==
    /\ user = NoUser
    /\ isLoading = TRUE
    /\ sessionPc = "get_user"
    /\ sessionUser = "none"
    /\ subscribed = TRUE
    /\ authEvents = 0
    /\ inflight = {}
    /\ signedOut = FALSE

AuthFrame == UNCHANGED <<netVars, aiVars, subVars>>

\* checkSession: getCurrentUser() settles: a user (the profile query is
\* issued), null, or a rejection (catch); finally setIsLoading(false)
GetCurrentUser ==
    /\ sessionPc = "get_user"
    /\ \E u \in UserIds \cup {"none", "throws"} :
          IF u \in UserIds
          THEN /\ sessionPc' = "profile"
               /\ sessionUser' = u
               /\ UNCHANGED isLoading
          ELSE /\ sessionPc' = "done"
               /\ isLoading' = FALSE
               /\ UNCHANGED sessionUser
    /\ UNCHANGED <<user, subscribed, authEvents, inflight, signedOut>>
    /\ AuthFrame

\* checkSession: the profile query settles: setUser(...), or a rejection
\* (catch); finally setIsLoading(false)
SessionProfile ==
    /\ sessionPc = "profile"
    /\ \E o \in Tiers \cup {"throws"} :
          user' = IF o = "throws" THEN user
                  ELSE [id |-> sessionUser, subscription_tier |-> o]
    /\ sessionPc' = "done"
    /\ isLoading' = FALSE
    /\ UNCHANGED <<sessionUser, subscribed, authEvents, inflight, signedOut>>
    /\ AuthFrame

\* The listener is called with (event, session): SIGNED_IN with a user issues
\* the profile query, SIGNED_OUT sets user to null, anything else is ignored
AuthStateChange ==
    /\ subscribed
    /\ authEvents < MaxAuthEvents
    /\ authEvents' = authEvents + 1
    /\ \E event \in AuthEventNames, u \in UserIds \cup {"none"} :
          /\ (event # "SIGNED_IN" => u = "none")
          /\ CASE event = "SIGNED_IN" /\ u # "none" ->
                    /\ inflight' = inflight \cup {[seq |-> authEvents + 1, id |-> u]}
                    /\ signedOut' = FALSE
                    /\ UNCHANGED user
               [] event = "SIGNED_IN" /\ u = "none" ->
                    /\ signedOut' = FALSE
                    /\ UNCHANGED <<user, inflight>>
               [] event = "SIGNED_OUT" ->
                    /\ user' = NoUser
                    /\ signedOut' = TRUE
                    /\ UNCHANGED inflight
               [] OTHER -> UNCHANGED <<user, inflight, signedOut>>
    /\ UNCHANGED <<isLoading, sessionPc, sessionUser, subscribed>>
    /\ AuthFrame

\* The profile query of a SIGNED_IN handler settles: setUser(...), or a
\* rejection, which ends the handler
HandlerProfile ==
    /\ \E f \in inflight, o \in Tiers \cup {"throws"} :
          /\ inflight' = inflight \ {f}
          /\ user' = IF o = "throws" THEN user
                     ELSE [id |-> f.id, subscription_tier |-> o]
    /\ UNCHANGED <<isLoading, sessionPc, sessionUser, subscribed, authEvents, signedOut>>
    /\ AuthFrame

\* The cleanup of the effect: authListener?.subscription.unsubscribe()
Unmount ==
    /\ subscribed
    /\ subscribed' = FALSE
    /\ UNCHANGED <<user, isLoading, sessionPc, sessionUser, authEvents, inflight, signedOut>>
    /\ AuthFrame

-----------------------------------------------------------------------------
(* Specifications *)

NetInit == NetIdle /\ AIIdle /\ SubAtRest /\ AuthMounted

NetNext ==
    \/ MakeRequest
    \/ StartAttempt
    \/ FetchResponds
    \/ FetchRejects
    \/ TimerFires
    \/ DelayEnds

SpecNet == NetInit /\ [][NetNext]_vars

AIInit == AIIdle /\ NetIdle /\ SubAtRest /\ AuthMounted

AINext ==
    \/ AICall
    \/ UploadImage
    \/ ConvertImage
    \/ ConvertCatch
    \/ VisionCall
    \/ VisionCatch
    \/ LlmFetch
    \/ LlmJsonRejects
    \/ LlmCompletion
    \/ LlmCatch
    \/ OuterCatch

SpecAI == AIInit /\ [][AINext]_vars

SubInit == SubIdle /\ observed = {1} /\ NetIdle /\ AIIdle /\ AuthMounted

ConcurrentInit ==
    /\ SubIdle /\ observed = {} /\ NetIdle /\ AIIdle /\ AuthMounted
    /\ now = FromDate(2024, 0, 31)

\* One caller: calls follow one another
Next ==
    \/ Tick
    \/ Call(1)
    \/ Leave(1)
    \/ StorageRejects(1)
    \/ ParseThrows(1)
    \/ ApiFails(1)
    \/ GetStored(1)
    \/ GetTrial(1)
    \/ TrialExisting(1)
    \/ TrialApi(1)
    \/ TrialSet(1)
    \/ SubscribeApi(1)
    \/ SubscribeSet(1)
    \/ CancelApi(1)
    \/ CancelRemove(1)

Spec == SubInit /\ [][Next]_vars

\* Two callers: their calls interleave at every await
NextConcurrent ==
    \/ (ticks < MaxConcurrentTicks /\ Tick /\ now' = now + 1)
    \/ \E p \in Callers :
          \/ Call(p)
          \/ Leave(p)
          \/ StorageRejects(p)
          \/ ParseThrows(p)
          \/ ApiFails(p)
          \/ GetStored(p)
          \/ GetTrial(p)
          \/ TrialExisting(p)
          \/ TrialApi(p)
          \/ TrialSet(p)
          \/ SubscribeApi(p)
          \/ SubscribeSet(p)
          \/ CancelApi(p)
          \/ CancelRemove(p)

\* (one starting date is enough for what is checked of interleavings)
SpecConcurrent == ConcurrentInit /\ [][NextConcurrent]_vars

AuthInit == AuthMounted /\ NetIdle /\ AIIdle /\ SubAtRest

AuthNext ==
    \/ GetCurrentUser
    \/ SessionProfile
    \/ AuthStateChange
    \/ HandlerProfile
    \/ Unmount

SpecAuth == AuthInit /\ [][AuthNext]_vars

-----------------------------------------------------------------------------
(* Claims about NetworkService.makeRequest (checked under SpecNet) *)

\* A 4xx status other than 408 and 429
FatalStatus(status) == status >= 400 /\ status <= 499 /\ status # 408 /\ status # 429

AllServerErrors ==
    /\ Len(log) > 0
    /\ \A i \in 1..Len(log) : log[i].kind = "response" /\ log[i].status >= 500

\* C1: a fetch that is answered with a fatal status (4xx other than 408/429)
\* is the last fetch of the call, and the call has failed: no retry follows
\* it, whatever retries is configured.
C1_FatalStatusNeverRetried ==
    \A i \in 1..Len(log) :
        (log[i].kind = "response" /\ FatalStatus(log[i].status))
            => (i = Len(log) /\ netPc = "thrown")

\* C2: when every fetch of the call was answered with a status >= 500, the
\* call never makes more than retries+1 fetches, never returns a response,
\* and has rejected only once exactly retries+1 fetches were made.
C2_ServerErrorsExhaustRetries ==
    AllServerErrors =>
        /\ Len(log) <= retries + 1
        /\ netPc # "returned"
        /\ (netPc = "thrown" => Len(log) = retries + 1)

C2_Witness ==
    /\ AllServerErrors
    /\ netPc = "thrown"
    /\ retries >= 2
    /\ Len(log) = retries + 1

-----------------------------------------------------------------------------
(* Claims about AIService (checked under SpecAI) *)

\* A numeric score within [0,100]
InRange(v) == v.type = "number" /\ v.n >= 0 /\ v.n <= 100

NonEmptyList(v) == v.type = "array" /\ v.n > 0

GlowScoresInRange(r) ==
    /\ InRange(r.overallScore)
    /\ InRange(r.jawlineScore)
    /\ InRange(r.brightness)
    /\ InRange(r.hydration)
    /\ InRange(r.symmetryScore)
    /\ InRange(r.glowScore)

OutfitScoresInRange(r) ==
    /\ InRange(r.outfitScore)
    /\ InRange(r.colorMatchScore)
    /\ InRange(r.styleScore)

C9_MalformedCompletionResultValid ==
    (aiPc = "resolved" /\ aiFail = "parse") =>
        /\ (aiOp = "analyzeGlow" =>
               /\ GlowScoresInRange(aiResult)
               /\ NonEmptyList(aiResult.tips)
               /\ NonEmptyList(aiResult.aiTips))
        /\ (aiOp = "analyzeOutfit" =>
               /\ OutfitScoresInRange(aiResult)
               /\ NonEmptyList(aiResult.tips))

C9_Witness ==
    /\ aiOp = "analyzeGlow"
    /\ aiPc = "resolved"
    /\ aiFail = "parse"
    /\ aiCompletion.kind = "object"
    /\ GlowScoresInRange(aiResult)

\* C10: when the completion decodes (comprehensive or legacy face schema, or
\* the outfit schema), every score of the result lies within [0,100].
C10_DecodedScoresClamped ==
    /\ (aiPc = "resolved" /\ aiSource \in {"comprehensive", "legacy"})
           => GlowScoresInRange(aiResult)
    /\ (aiPc = "resolved" /\ aiSource = "outfit")
           => OutfitScoresInRange(aiResult)

-----------------------------------------------------------------------------
(* Claims about SubscriptionService (checked under Spec, the interleaving *)
(* ones under SpecConcurrent)                                              *)

IsGetDone == pc[1] = "done" /\ call[1].method = "getSubscriptionStatus"

\* C4: a startFreeTrial call that begins after a startFreeTrial call has
\* returned success never gets past the used check: it does not reach the
\* billing call or the write, the stored trial record stays what it was when
\* the call began, and the call returns success:false, with the already-used
\* error whenever its read of the trial record was answered.
C4_NoSecondTrial ==
    (call[1].method = "startFreeTrial" /\ late[1]) =>
        /\ pc[1] \notin {"trial_api", "trial_set"}
        /\ trialStore = atCall[1][2]
        /\ (pc[1] = "done" =>
               /\ ~ret[1].success
               /\ (~ioFailed[1] => ret[1].error = AlreadyUsedError))

C4_Witness ==
    /\ call[1].method = "startFreeTrial"
    /\ late[1]
    /\ pc[1] = "done"
    /\ ret[1].error = AlreadyUsedError
    /\ call[1].planId # trialStore.planId
    /\ ParseISO(trialStore.expiresAt) <= now
    /\ ~subStore.present

\* C5: in every step of every interleaving of the four methods, a stored
\* trial record with used = true stays stored with used = true.
C5_TrialUsedNeverReset ==
    [][(trialStore.present /\ trialStore.used)
          => (trialStore'.present /\ trialStore'.used)]_vars

C5_Witness ==
    /\ trialStore.present
    /\ trialStore.used
    /\ pc[1] = "done"
    /\ ret[1].method = "cancelSubscription"
    /\ ret[1].success
    /\ pc[2] = "done"
    /\ ret[2].method = "startFreeTrial"
    /\ ~ret[2].success

\* C6: getSubscriptionStatus returns isActive = true whenever the stored
\* trial has not expired at the time of the read, whatever the paid record.
C6_ActiveTrialGrantsAccess ==
    (IsGetDone /\ ~ioFailed[1] /\ trialStore.present /\ ParseISO(trialStore.expiresAt) > now)
        => ret[1].isActive

\* C7: when the stored paid record has expiresAt <= now, getSubscriptionStatus
\* returns isActive = false, and both stored records are what they were when
\* the call began.
C7_ExpiredPaidInactive ==
    (IsGetDone /\ subStore.present /\ ParseISO(subStore.expiresAt) <= now) =>
        /\ ~ret[1].isActive
        /\ <<subStore, trialStore>> = atCall[1]

C7_Witness ==
    /\ IsGetDone
    /\ ~ioFailed[1]
    /\ subStore.present
    /\ ParseISO(subStore.expiresAt) = now
    /\ ~ret[1].isActive
    /\ ret[1].hasExpiresAt

\* One calendar month after `from`: the same day of the next month (28 to 31
\* days later), rolled over into the month after when the next month is
\* shorter
OneMonthAfter(from, to) ==
    LET a == ToDate(from)
        e == ToDate(to)
        nextY == IF a.m = 11 THEN a.y + 1 ELSE a.y
        nextM == (a.m + 1) % 12
    IN  /\ to - from >= 28
        /\ to - from <= 31
        /\ (a.d <= DaysInMonth(nextY, nextM) => e = [y |-> nextY, m |-> nextM, d |-> a.d])

\* One calendar year after `from`: the same date of the next year, 1 March
\* for 29 February
OneYearAfter(from, to) ==
    LET a == ToDate(from)
        e == ToDate(to)
    IN  IF a.m = 1 /\ a.d = 29
        THEN e = [y |-> a.y + 1, m |-> 2, d |-> 1]
        ELSE e = [y |-> a.y + 1, m |-> a.m, d |-> a.d]

\* C8: a getSubscriptionStatus that follows a successful subscribeToPlan(p)
\* with no time passed since the subscription returns isActive = true, plan p
\* and expiresAt one month (monthly plan) or one year (yearly plan) after the
\* time of the subscription.
C8_SubscribeThenRead ==
    (IsGetDone /\ ~ioFailed[1] /\ prev[1].method = "subscribeToPlan" /\ prev[1].at = now) =>
        /\ ret[1].isActive
        /\ ret[1].plan = prev[1].planId
        /\ ret[1].hasExpiresAt
        /\ (FindPlan(prev[1].planId).duration = "monthly"
               => OneMonthAfter(prev[1].at, ret[1].expiresAt))
        /\ (FindPlan(prev[1].planId).duration = "yearly"
               => OneYearAfter(prev[1].at, ret[1].expiresAt))

C8_Witness ==
    /\ IsGetDone
    /\ ~ioFailed[1]
    /\ prev[1].method = "subscribeToPlan"
    /\ prev[1].at = now
    /\ prev[1].planId = "premium_yearly"
    /\ ret[1].isActive
    /\ trialStore.present
    /\ ToDate(now) = [y |-> 2024, m |-> 1, d |-> 29]

-----------------------------------------------------------------------------
(* Further claims about AIService (checked under SpecAI) *)

\* The positions of a task list holding a task of the given day and type
TasksOf(tasks, day, type) ==
    {i \in 1..Len(tasks) : tasks[i].day = day /\ tasks[i].type = type}

\* C11: whenever generateCoachingPlan resolves with the fallback plan (after
\* a failed request or an undecodable completion), the plan has duration 30,
\* its tasks cover exactly the days 1..30, every day has exactly one
\* skincare, one hydration and one sleep task, every day divisible by 3 has
\* exactly one more task, of type exercise, no other day has an exercise
\* task, and all task ids are distinct.
C11_FallbackPlanShape ==
    (aiOp = "generateCoachingPlan" /\ aiPc = "resolved" /\ aiSource = "mock") =>
        LET tasks == aiResult.dailyTasks
        IN  /\ aiResult.duration = Num(30)
            /\ {tasks[i].day : i \in 1..Len(tasks)} = 1..30
            /\ \A d \in 1..30 :
                  /\ Cardinality(TasksOf(tasks, d, "skincare")) = 1
                  /\ Cardinality(TasksOf(tasks, d, "hydration")) = 1
                  /\ Cardinality(TasksOf(tasks, d, "sleep")) = 1
                  /\ Cardinality(TasksOf(tasks, d, "exercise")) = (IF d % 3 = 0 THEN 1 ELSE 0)
                  /\ Cardinality({i \in 1..Len(tasks) : tasks[i].day = d})
                        = (IF d % 3 = 0 THEN 4 ELSE 3)
            /\ Cardinality({tasks[i].id : i \in 1..Len(tasks)}) = Len(tasks)

C11_Witness ==
    /\ aiOp = "generateCoachingPlan"
    /\ aiPc = "resolved"
    /\ aiSource = "mock"
    /\ aiFail = "parse"
    /\ Len(aiResult.dailyTasks) = 100

-----------------------------------------------------------------------------
(* Further claims about NetworkService.makeRequest (checked under SpecNet) *)

\* C12: the k-th backoff sleep of a call, taken between failed attempt k-1
\* and attempt k (0-indexed), lasts retryDelay * 2^(k-1), whatever the kind
\* of the failure (error response, connection failure, timeout); every
\* failed attempt but the last is followed by one sleep, and no sleep follows
\* the last attempt of a call that has ended.
C12_ExponentialBackoff ==
    /\ \A k \in 1..Len(delays) : delays[k] = retryDelay * 2^(k - 1)
    /\ Len(delays) <= retries
    /\ (netPc = "delay" => Len(delays) = Len(log))
    /\ (netPc \in {"thrown", "returned"} => Len(delays) = Len(log) - 1)

C12_Witness ==
    /\ netPc = "thrown"
    /\ retryDelay = 2
    /\ Len(log) = 3
    /\ log[1].kind = "response"
    /\ log[2].kind = "network"
    /\ log[3].kind = "abort"
    /\ delays = <<2, 4>>

\* A failure the transport must retry: status 408 or 429, a fetch rejected
\* without a response, or the per-attempt timeout
RetryableOutcome(o) ==
    \/ o.kind = "response" /\ o.status \in {408, 429}
    \/ o.kind = "network"
    \/ o.kind = "abort"

\* C13: a call never makes more than retries+1 fetches, and a call whose
\* last fetch ended with status 408 or 429, a connection failure or a
\* timeout has rejected only if that fetch was the (retries+1)-th: such a
\* failure on an earlier attempt is always followed by another attempt.
C13_RetryableKindsRetried ==
    /\ Len(log) <= retries + 1
    /\ (Len(log) > 0 /\ RetryableOutcome(log[Len(log)])) =>
          /\ netPc # "returned"
          /\ (netPc = "thrown" => Len(log) = retries + 1)

C13_Witness ==
    /\ netPc = "returned"
    /\ retries = 2
    /\ Len(log) = 3
    /\ log[1] = [kind |-> "response", status |-> 429]
    /\ log[2].kind = "abort"
    /\ log[3].status = 200

-----------------------------------------------------------------------------
(* Further claims about SubscriptionService (checked under Spec) *)

MutatingMethods == {"startFreeTrial", "subscribeToPlan", "cancelSubscription"}

FailureMessages ==
    {AlreadyUsedError,
     "Trial not available for this plan.",
     "Plan not found.",
     "Failed to start free trial. Please try again.",
     "Subscription failed. Please try again.",
     "Failed to cancel subscription. Please try again."}

\* C14: a call of startFreeTrial, subscribeToPlan or cancelSubscription never
\* rejects; when it has returned, its result is the one of the method
\* called, success:false results carry one of the service's error messages
\* (business-rule, billing and storage failures alike) and success:true
\* results carry none.
C14_MutatingCallsReturnResults ==
    \A p \in Callers :
        /\ pc[p] # "rejected"
        /\ (pc[p] = "done" /\ call[p].method \in MutatingMethods) =>
              /\ ret[p].method = call[p].method
              /\ (ret[p].success <=> ret[p].error = "none")
              /\ (~ret[p].success => ret[p].error \in FailureMessages)

C14_Witness ==
    /\ pc[1] = "done"
    /\ call[1].method = "cancelSubscription"
    /\ ~ioFailed[1]
    /\ ~ret[1].success
    /\ ret[1].error = "Failed to cancel subscription. Please try again."
    /\ subStore.present

\* The plan has a trial
TrialEligible(planId) == FindPlan(planId) # NoPlan /\ FindPlan(planId).trialDays > 0

\* A used trial record was stored when the call of caller 1 began
UsedAtCall == atCall[1][2].present /\ atCall[1][2].used

\* C15: for a startFreeTrial(planId) call (one caller at a time):
\* the billing call and the write are reached only when no used trial record
\* was stored and the plan has trialDays; a call that returns success has
\* stored {planId, startedAt, expiresAt = startedAt + trialDays, used: true}
\* with startedAt not after the present; a call that returns an error, and a
\* call still under way, leave both stored records as they were, the error
\* being the already-used one whenever a used trial was read, also for a
\* plan without trial (the used check comes first), and the not-available
\* one only for a plan without trial and no used trial.
C15_TrialPersistedIffEligible ==
    (call[1].method = "startFreeTrial") =>
        /\ (pc[1] \in {"trial_api", "trial_set"} =>
               ~UsedAtCall /\ TrialEligible(call[1].planId))
        /\ (pc[1] = "done" /\ ret[1].success) =>
               /\ ~UsedAtCall
               /\ TrialEligible(call[1].planId)
               /\ trialStore.present
               /\ trialStore.used
               /\ trialStore.planId = call[1].planId
               /\ ParseISO(trialStore.startedAt) <= now
               /\ ParseISO(trialStore.expiresAt)
                     = ParseISO(trialStore.startedAt) + FindPlan(call[1].planId).trialDays
               /\ subStore = atCall[1][1]
        /\ (~(pc[1] = "done" /\ ret[1].success) => <<subStore, trialStore>> = atCall[1])
        /\ (pc[1] = "done" /\ ~ioFailed[1] /\ UsedAtCall => ret[1].error = AlreadyUsedError)
        /\ (pc[1] = "done" /\ ret[1].error = "Trial not available for this plan."
               => ~UsedAtCall /\ ~TrialEligible(call[1].planId))
        /\ (pc[1] = "done" /\ ~ioFailed[1] /\ ~UsedAtCall /\ ~TrialEligible(call[1].planId)
               => ret[1].error = "Trial not available for this plan.")

C15_Witness ==
    /\ call[1].method = "startFreeTrial"
    /\ call[1].planId = "premium_lifetime"
    /\ pc[1] = "done"
    /\ UsedAtCall
    /\ ret[1].error = AlreadyUsedError
    /\ ParseISO(trialStore.expiresAt) = ParseISO(trialStore.startedAt) + 7
    /\ ParseISO(trialStore.expiresAt) > now

\* C16: during a cancelSubscription call the trial record stays what it was
\* when the call began; the paid record stays what it was while the billing
\* call is pending, while removeItem is pending, and when the call returns
\* success:false (billing or storage failure); a call that returns success
\* has removed the paid record.
C16_CancelRemovesOnlyPaidRecord ==
    (call[1].method = "cancelSubscription") =>
        /\ trialStore = atCall[1][2]
        /\ (pc[1] \in {"cancel_api", "cancel_remove"} => subStore = atCall[1][1])
        /\ (pc[1] = "done" /\ ~ret[1].success => subStore = atCall[1][1])
        /\ (pc[1] = "done" /\ ret[1].success => subStore = NoSub)

C16_Witness ==
    /\ call[1].method = "cancelSubscription"
    /\ pc[1] = "done"
    /\ ret[1].success
    /\ atCall[1][1].present
    /\ ~subStore.present
    /\ trialStore.present
    /\ trialStore = atCall[1][2]

\* C17: a getSubscriptionStatus that follows a successful cancelSubscription
\* (no call and no time in between) returns isActive = false, whatever was
\* stored when cancelSubscription was called.
C17_CancelResetsEntitlement ==
    (IsGetDone /\ prev[1].method = "cancelSubscription") => ~ret[1].isActive

\* C18: a subscribeToPlan call with a plan id that is not in the catalog has
\* returned before its first await, with success:false and the plan-not-found
\* error: it never waits for the billing call or for a write, and both stored
\* records are what they were when the call began.
C18_UnknownPlanRejected ==
    (call[1].method = "subscribeToPlan" /\ call[1].planId \notin {pl.id : pl \in Plans}) =>
        /\ pc[1] = "done"
        /\ ~ret[1].success
        /\ ret[1].error = "Plan not found."
        /\ <<subStore, trialStore>> = atCall[1]

C18_Witness ==
    /\ call[1].method = "subscribeToPlan"
    /\ call[1].planId = "premium_lifetime"
    /\ pc[1] = "done"
    /\ ret[1].error = "Plan not found."
    /\ subStore.present
    /\ subStore.plan = "premium_yearly"
    /\ trialStore.present

-----------------------------------------------------------------------------
(* Claims about the public methods of NetworkService (checked under SpecNet) *)

\* C19: once an upload request (uploadFile, or post with a FormData body)
\* has been handed to fetch, the headers it was sent with do not hold the
\* default content type of baseHeaders ('Content-Type: application/json').
C19_UploadOmitsDefaultContentType ==
    (request.variant \in {"uploadFile", "post_form"} /\ netPc \notin {"idle", "attempt"}) =>
        request.requestHeaders["Content-Type"] # baseHeaders["Content-Type"]

-----------------------------------------------------------------------------
(* Claims about parseGlowAnalysis (checked under SpecAI) *)

\* The completion is a JSON object with a numeric overallScore, a string
\* skinTone and an array aiTips
MatchesComprehensive(c) ==
    /\ c.kind = "object"
    /\ Get(c.obj, "overallScore").type = "number"
    /\ Get(c.obj, "skinTone").type = "string"
    /\ Get(c.obj, "aiTips").type = "array"

\* The completion is a JSON object with a numeric glowScore
MatchesLegacy(c) == c.kind = "object" /\ Get(c.obj, "glowScore").type = "number"

\* C20: when analyzeGlow resolves with what parseGlowAnalysis made of the
\* completion: a completion matching the comprehensive schema is decoded as
\* comprehensive, also when it matches the legacy schema too (overallScore
\* and glowScore of the result are its overallScore, tips its aiTips); one
\* matching only the legacy schema is decoded as legacy (overallScore and
\* glowScore of the result are its glowScore); one matching neither yields
\* mock data.
C20_ParseOrder ==
    (aiOp = "analyzeGlow" /\ aiPc = "resolved" /\ aiCompletion.kind # "none") =>
        LET c == aiCompletion
        IN  /\ MatchesComprehensive(c) =>
                  /\ aiSource = "comprehensive"
                  /\ aiResult.overallScore = Get(c.obj, "overallScore")
                  /\ aiResult.glowScore = Get(c.obj, "overallScore")
                  /\ aiResult.aiTips = Get(c.obj, "aiTips")
            /\ (~MatchesComprehensive(c) /\ MatchesLegacy(c)) =>
                  /\ aiSource = "legacy"
                  /\ aiResult.overallScore = Get(c.obj, "glowScore")
                  /\ aiResult.glowScore = Get(c.obj, "glowScore")
            /\ (~MatchesComprehensive(c) /\ ~MatchesLegacy(c)) => aiSource = "mock"

C20_Witness ==
    /\ aiOp = "analyzeGlow"
    /\ aiPc = "resolved"
    /\ MatchesComprehensive(aiCompletion)
    /\ MatchesLegacy(aiCompletion)
    /\ Get(aiCompletion.obj, "glowScore") # Get(aiCompletion.obj, "overallScore")
    /\ aiResult.glowScore = Get(aiCompletion.obj, "overallScore")

-----------------------------------------------------------------------------
(* Claims about the reports AIService makes (checked under SpecAI) *)

\* C21: whenever a public call has resolved with mock data because the LLM
\* request failed (connection, timeout, error status, unreadable body) or
\* because the completion did not parse or validate, a report to errorHandler
\* was made by a catch block of that call before it resolved.
C21_FallbackReported ==
    (aiPc = "resolved" /\ aiSource = "mock"
        /\ aiFail \in {"network", "abort", "notok", "json", "parse"}) =>
        \E i \in 1..Len(aiReports) : aiReports[i] \in {"report_llm", "report_outer"}

-----------------------------------------------------------------------------
(* Claims about the timers of makeRequest (checked under SpecNet) *)

\* C22: attempt k-1 (the k-th fetch) ends as aborted only when the
\* controller created for that very attempt was aborted by its own timer; a
\* timer armed for an earlier attempt that fires later aborts nothing but its
\* own controller.  After such an abort the error is classified TIMEOUT, and
\* the call has rejected only if that attempt was the last one allowed.
C22_PerAttemptTimeout ==
    /\ \A k \in 1..Len(log) : log[k].kind = "abort" => (k - 1) \in aborted
    /\ timers \subseteq 0..attempt
    /\ (Len(log) > 0 /\ log[Len(log)].kind = "abort") =>
          /\ netPc # "returned"
          /\ (netPc # "thrown" => lastError.code = "TIMEOUT" /\ lastError.isRetryable)
          /\ (netPc = "thrown" => thrown.code = "TIMEOUT" /\ Len(log) = retries + 1)

C22_Witness ==
    /\ netPc = "inflight"
    /\ attempt = 2
    /\ log[1].kind = "network"
    /\ log[2].kind = "abort"
    /\ aborted = {0, 1}
    /\ timers = {2}

-----------------------------------------------------------------------------
(* Claims about interleaved calls (checked under SpecConcurrent) *)

\* Caller p has returned from a successful startFreeTrial
TrialSucceeded(p) ==
    pc[p] = "done" /\ ret[p].method = "startFreeTrial" /\ ret[p].success

\* C23: nothing orders the used check of one startFreeTrial call against the
\* write of another: whenever a call that passed the check completes its
\* write, the stored trial record becomes the record of that call, whatever
\* was stored by then, a used record written by an overlapping call included
\* (the state in which both calls have returned success and the earlier
\* record is overwritten is reachable).
C23_LaterTrialWriteOverwrites ==
    [][\A p \in Callers :
          (pc[p] = "trial_set" /\ pc'[p] = "done" /\ ret'[p].success)
              => trialStore' = pending[p]]_vars

C23_Witness ==
    /\ TrialSucceeded(1)
    /\ TrialSucceeded(2)
    /\ pending[1] # pending[2]
    /\ pending[1].used
    /\ trialStore = pending[2]

-----------------------------------------------------------------------------
(* Claims about the error makeRequest rejects with (checked under SpecNet) *)

\* C24: when makeRequest has rejected and its last fetch was answered with an
\* HTTP error response, the error it rejected with carries the status of
\* that response, and is classified as that status is.
C24_PropagatedErrorKeepsStatus ==
    (netPc = "thrown" /\ Len(log) > 0 /\ log[Len(log)].kind = "response") =>
        /\ thrown.status = log[Len(log)].status
        /\ thrown.isRetryable = isRetryableError(log[Len(log)].status, "none")

-----------------------------------------------------------------------------
(* Claims about the LLM request of AIService (checked under SpecAI) *)

\* C25: when a public call has fallen back to mock data because its LLM
\* request failed at the connection level (a retryable failure), the request
\* was retried first: more than one fetch of the LLM endpoint was made.
C25_LlmRequestRetried ==
    (aiPc = "resolved" /\ aiSource = "mock" /\ aiFail = "network") => aiFetches > 1

\* C26: whatever the reports to errorHandler do, a public call neither
\* rejects because a report rejected nor stays pending because a report
\* never settled.
C26_ReportingNonBlocking == aiPc \notin {"rejected", "hung"}

-----------------------------------------------------------------------------
(* Further claims about SubscriptionService (checked under Spec) *)

\* C27: at every point of a subscribeToPlan call the trial record is what it
\* was when the call began, and at every point of a startFreeTrial call the
\* paid record is what it was when the call began; a startFreeTrial call is
\* not refused because a paid record is stored, so both records can be
\* stored together.
C27_TrialAndPaidIndependent ==
    /\ (call[1].method = "subscribeToPlan" => trialStore = atCall[1][2])
    /\ (call[1].method = "startFreeTrial" => subStore = atCall[1][1])
    /\ (call[1].method = "startFreeTrial" /\ pc[1] = "done" /\ ~ioFailed[1]
           /\ ~UsedAtCall /\ TrialEligible(call[1].planId)
           /\ ret[1].error # "Failed to start free trial. Please try again.")
          => ret[1].success

C27_Witness ==
    /\ call[1].method = "subscribeToPlan"
    /\ pc[1] = "done"
    /\ ret[1].success
    /\ trialStore.present
    /\ trialStore.used
    /\ ParseISO(trialStore.expiresAt) > now
    /\ subStore.present
    /\ ParseISO(subStore.expiresAt) > now
    /\ ~atCall[1][1].present

\* C28: a getSubscriptionStatus call never rejects; when one of its storage
\* reads rejects, or a stored item it read does not parse, it returns exactly
\* {isActive: false}, also when the other stored record would grant access,
\* and both stored records are what they were when the call began.
C28_StatusReadFailsClosed ==
    (call[1].method = "getSubscriptionStatus") =>
        /\ pc[1] # "rejected"
        /\ <<subStore, trialStore>> = atCall[1]
        /\ (pc[1] = "done" /\ ioFailed[1]) => ret[1] = [Inactive EXCEPT !.at = now]

C28_Witness ==
    /\ IsGetDone
    /\ ioFailed[1]
    /\ ~ret[1].isActive
    /\ readSub[1].present
    /\ trialStore.present
    /\ ParseISO(trialStore.expiresAt) > now
    /\ ParseISO(subStore.expiresAt) > now

\* C29: when a subscribeToPlan(p) call has returned success, the stored paid
\* record is {isActive: true, plan: p, expiresAt} with expiresAt one month
\* (monthly plan) or one year (yearly plan) after the time the call read the
\* clock, whatever record was stored when the call began: a running
\* subscription is not extended, and the stored expiry can move earlier.
C29_SubscribeReplacesRecord ==
    (call[1].method = "subscribeToPlan" /\ pc[1] = "done" /\ ret[1].success) =>
        /\ subStore.present
        /\ subStore.isActive
        /\ subStore.plan = call[1].planId
        /\ ret[1].at <= now
        /\ (FindPlan(call[1].planId).duration = "monthly"
               => OneMonthAfter(ret[1].at, ParseISO(subStore.expiresAt)))
        /\ (FindPlan(call[1].planId).duration = "yearly"
               => OneYearAfter(ret[1].at, ParseISO(subStore.expiresAt)))

C29_Witness ==
    /\ call[1].method = "subscribeToPlan"
    /\ call[1].planId = "premium_monthly"
    /\ pc[1] = "done"
    /\ ret[1].success
    /\ atCall[1][1].present
    /\ atCall[1][1].plan = "premium_yearly"
    /\ ParseISO(atCall[1][1].expiresAt) > now
    /\ ParseISO(subStore.expiresAt) < ParseISO(atCall[1][1].expiresAt)

-----------------------------------------------------------------------------
(* Claims about AuthContext (checked under SpecAuth) *)

\* C30: from the handling of a SIGNED_OUT event until the next SIGNED_IN
\* event arrives, user is null: a profile query issued before the SIGNED_OUT
\* (by an earlier SIGNED_IN handler or by checkSession) that settles after it
\* does not set user.
C30_SignedOutStaysSignedOut == signedOut => user = NoUser

====
